---- MODULE Spec2Model ----
(***************************************************************************)
(* Verification model of the lunie API data sources.                       *)
(*                                                                         *)
(*   Spec          CosmosV0API.getRetry and the response cache, with       *)
(*                 several calls in flight on one instance                 *)
(*   SpecPaginate  CosmosV0API.loadPaginatedTxs                            *)
(*   SpecTx        polkadotV0-reducers: aggregateLunieStaking and          *)
(*                 transactionReducerV2                                    *)
(*                                                                         *)
(* Every `await` of the source is a point where another in-flight call of  *)
(* the same instance may run; the code between two awaits is one action.   *)
(***************************************************************************)
EXTENDS Integers, Sequences, FiniteSets, TLC

VARIABLES
  \* ---- CosmosV0API instance and getRetry calls ----
  cache,        \* this.cache: url -> cached payload, or NoEntry
  qpc,          \* position of each getRetry call
  qurl,         \* url argument of the call
  intent,       \* intent argument of the innermost getRetry frame
  sizeSeen,     \* value of `await this.cache.getTotalSize()` of this attempt
  didFlush,     \* this attempt called this.cache.flush()
  reqs,         \* requests sent upstream by this call
  fails,        \* attempts of this call that threw
  lastPayload,  \* body of the latest successful this.get of this call
  lastError,    \* error of the latest failed this.get of this call
  outcome,      \* "none" | "success" | "failure": what the caller got
  result,       \* value returned to the caller
  thrown,       \* error thrown to the caller
  logged,       \* console.error lines written by this call
  \* ---- loadPaginatedTxs ----
  upPages,      \* upstream: the txs array served for page 1, 2, ...
  upTotal,      \* upstream: total_count reported with every page
  ppc,          \* "idle" | "fetch" | "done" | "failed"
  page,         \* page argument of the innermost frame
  totalAmount,  \* totalAmount argument of the innermost frame
  pending,      \* allTxs of the suspended outer frames, outermost first
  pIntent,      \* intent of the getRetry call the innermost frame awaits
  pResult,      \* list returned to the caller of loadPaginatedTxs
  \* ---- polkadotV0-reducers: transactionReducerV2 ----
  extrinsic,    \* the raw extrinsic: [hash, method]
  txIndex,      \* index of the extrinsic in its block
  blockEvents,  \* the events of the block
  txpc,         \* "raw" | "reduced"
  txMessages,   \* const messages = aggregateLunieStaking(...)
  txOut,        \* the canonical transactions returned
  \* ---- polkadotV0-reducers: the other reducers, one call at a time ----
  redFn,        \* the reducer that is called
  redIn,        \* its arguments
  redPc,        \* "in" | "out"
  redOut,       \* its return value
  \* ---- CosmosV0API: one facade operation and its sub-queries ----
  fop,          \* the operation that is called
  farg,         \* its argument
  fpc,          \* "called" | "waiting" | "done"
  fstage,       \* the await the operation is at (0 before the first)
  fsub,         \* sub-query -> "unsent" | "inflight" | "ok" | "failed" | "defaulted"
  fErr,         \* sub-query -> the error its getRetry threw
  fReqs,        \* upstream requests issued for the operation so far
  fDelays,      \* one-second retry delays waited so far
  fOutcome      \* what the caller got

retryVars == <<cache, qpc, qurl, intent, sizeSeen, didFlush, reqs, fails,
               lastPayload, lastError, outcome, result, thrown, logged>>

pageVars == <<upPages, upTotal, ppc, page, totalAmount, pending, pIntent,
              pResult>>

txVars == <<extrinsic, txIndex, blockEvents, txpc, txMessages, txOut>>

redVars == <<redFn, redIn, redPc, redOut>>

facVars == <<fop, farg, fpc, fstage, fsub, fErr, fReqs, fDelays, fOutcome>>

vars == <<retryVars, pageVars, txVars, redVars, facVars>>

----------------------------------------------------------------------------
\* Values

Queries   == {"q1", "q2"}
Urls      == {"u1", "u2"}
Payloads  == {"p1", "p2"}
ErrKinds  == {"transport", "http"}
NetworkId == "cosmos-hub"

Undefined == "undefined"
NoEntry   == "noentry"
NoError   == [kind |-> "none", url |-> Undefined, networkId |-> Undefined]

\* Size a cached response takes in the InMemoryLRUCache (length of the body).
SizeOf(p) == IF p = "p1" THEN 50000 ELSE 60000

CacheLimit == 100000
MaxIntent  == 3

\* The error this.get throws: an HTTP error carries the response (with its
\* url) in extensions.response, a transport error carries no response; none
\* carries a network id.
UpstreamError(kind, url) ==
  [kind |-> kind,
   url |-> IF kind = "http" THEN url ELSE Undefined,
   networkId |-> Undefined]

Errors == {UpstreamError(k, u) : k \in ErrKinds, u \in Urls}

RECURSIVE SumSizes(_, _)
SumSizes(c, us) ==
  IF us = {} THEN 0
  ELSE LET u == CHOOSE x \in us : TRUE
       IN (IF c[u] = NoEntry THEN 0 ELSE SizeOf(c[u])) + SumSizes(c, us \ {u})

\* this.cache.getTotalSize()
getTotalSize(c) == SumSizes(c, Urls)

\* this.cache.flush()
flush(c) == [u \in Urls |-> NoEntry]

\* Mutant of ShouldFlush: the comparison includes the limit itself.
ShouldFlushAtLimit(size) == size >= CacheLimit

\* `(await this.cache.getTotalSize()) > 100000`
ShouldFlush(size) == size > CacheLimit

\* Mutant of GiveUp: gives up one attempt early.
GiveUpEarly(i) == i >= MaxIntent - 1

\* `if (intent >= 3)`: give up
GiveUp(i) == i >= MaxIntent

\* Mutant of Rethrow: throws a new error built from the url alone.
RethrowFresh(error, url) ==
  [kind |-> "transport", url |-> url, networkId |-> Undefined]

\* `throw error`: the error of the failed this.get, as caught
Rethrow(error, url) == error

\* Mutant of NextIntent: a retry counts for two attempts.
NextIntentDouble(i) == i + 2

\* `intent + 1`, the argument of the recursive call
NextIntent(i) == i + 1

\* console.error(`Error for query ${url} in network ${this.networkId} ...`)
LogLine(url) == <<url, NetworkId>>

\* Mutant of Returned: the retrying frame calls getRetry without `return`.
ReturnedDropped(value, i) == IF i = 0 THEN value ELSE Undefined

\* `return this.getRetry(url, intent + 1)` / `return await this.get(...)`:
\* what the outermost frame hands to the caller
Returned(value, i) == value

----------------------------------------------------------------------------
\* getRetry

InitRetry ==
  /\ cache = [u \in Urls |-> NoEntry]
  /\ qpc = [q \in Queries |-> "idle"]
  /\ qurl = [q \in Queries |-> "u1"]
  /\ intent = [q \in Queries |-> 0]
  /\ sizeSeen = [q \in Queries |-> 0]
  /\ didFlush = [q \in Queries |-> FALSE]
  /\ reqs = [q \in Queries |-> 0]
  /\ fails = [q \in Queries |-> 0]
  /\ lastPayload = [q \in Queries |-> Undefined]
  /\ lastError = [q \in Queries |-> NoError]
  /\ outcome = [q \in Queries |-> "none"]
  /\ result = [q \in Queries |-> Undefined]
  /\ thrown = [q \in Queries |-> NoError]
  /\ logged = [q \in Queries |-> <<>>]

NoRetry == InitRetry

\* A caller invokes getRetry(url): the frame runs up to its first await,
\* which is the await of this.cache.getTotalSize().
Call(q, u) ==
  /\ qpc[q] \in {"idle", "done"}
  /\ qpc' = [qpc EXCEPT ![q] = "checked"]
  /\ qurl' = [qurl EXCEPT ![q] = u]
  /\ intent' = [intent EXCEPT ![q] = 0]
  /\ sizeSeen' = [sizeSeen EXCEPT ![q] = getTotalSize(cache)]
  /\ didFlush' = [didFlush EXCEPT ![q] = FALSE]
  /\ reqs' = [reqs EXCEPT ![q] = 0]
  /\ fails' = [fails EXCEPT ![q] = 0]
  /\ lastPayload' = [lastPayload EXCEPT ![q] = Undefined]
  /\ lastError' = [lastError EXCEPT ![q] = NoError]
  /\ outcome' = [outcome EXCEPT ![q] = "none"]
  /\ result' = [result EXCEPT ![q] = Undefined]
  /\ thrown' = [thrown EXCEPT ![q] = NoError]
  /\ logged' = [logged EXCEPT ![q] = <<>>]
  /\ UNCHANGED cache
  /\ UNCHANGED <<pageVars, txVars, redVars, facVars>>

\* this.memoizedResults.clear(); this.get(url, null, {cacheOptions: {ttl: 1}})
\* A fresh cache entry for the url answers the get without a request.
Get(q) ==
  IF cache[qurl[q]] # NoEntry
  THEN /\ qpc' = [qpc EXCEPT ![q] = "done"]
       /\ lastPayload' = [lastPayload EXCEPT ![q] = cache[qurl[q]]]
       /\ outcome' = [outcome EXCEPT ![q] = "success"]
       /\ result' = [result EXCEPT ![q] = Returned(cache[qurl[q]], intent[q])]
       /\ UNCHANGED reqs
  ELSE /\ qpc' = [qpc EXCEPT ![q] = "waiting"]
       /\ reqs' = [reqs EXCEPT ![q] = @ + 1]
       /\ UNCHANGED <<lastPayload, outcome, result>>

\* The size check found the cache above the limit: flush, then await it.
Flush(q) ==
  /\ qpc[q] = "checked"
  /\ ShouldFlush(sizeSeen[q])
  /\ cache' = flush(cache)
  /\ didFlush' = [didFlush EXCEPT ![q] = TRUE]
  /\ qpc' = [qpc EXCEPT ![q] = "flushed"]
  /\ UNCHANGED <<qurl, intent, sizeSeen, reqs, fails, lastPayload, lastError,
                 outcome, result, thrown, logged>>
  /\ UNCHANGED <<pageVars, txVars, redVars, facVars>>

\* The size check found the cache within the limit: straight on to the get.
SendNoFlush(q) ==
  /\ qpc[q] = "checked"
  /\ ~ShouldFlush(sizeSeen[q])
  /\ Get(q)
  /\ UNCHANGED <<cache, qurl, intent, sizeSeen, didFlush, fails, lastError,
                 thrown, logged>>
  /\ UNCHANGED <<pageVars, txVars, redVars, facVars>>

\* The awaited flush has resolved: on to the get.
SendAfterFlush(q) ==
  /\ qpc[q] = "flushed"
  /\ Get(q)
  /\ UNCHANGED <<cache, qurl, intent, sizeSeen, didFlush, fails, lastError,
                 thrown, logged>>
  /\ UNCHANGED <<pageVars, txVars, redVars, facVars>>

\* The upstream answers 2xx: the response is cached and returned.
RespondOk(q, p) ==
  /\ qpc[q] = "waiting"
  /\ cache' = [cache EXCEPT ![qurl[q]] = p]
  /\ lastPayload' = [lastPayload EXCEPT ![q] = p]
  /\ outcome' = [outcome EXCEPT ![q] = "success"]
  /\ result' = [result EXCEPT ![q] = Returned(p, intent[q])]
  /\ qpc' = [qpc EXCEPT ![q] = "done"]
  /\ UNCHANGED <<qurl, intent, sizeSeen, didFlush, reqs, fails, lastError,
                 thrown, logged>>
  /\ UNCHANGED <<pageVars, txVars, redVars, facVars>>

\* The request fails (transport error or non-2xx): catch block.
RespondError(q, kind) ==
  LET error == UpstreamError(kind, qurl[q]) IN
  /\ qpc[q] = "waiting"
  /\ lastError' = [lastError EXCEPT ![q] = error]
  /\ fails' = [fails EXCEPT ![q] = @ + 1]
  /\ IF GiveUp(intent[q])
     THEN /\ logged' = [logged EXCEPT ![q] = Append(@, LogLine(qurl[q]))]
          /\ thrown' = [thrown EXCEPT ![q] = Rethrow(error, qurl[q])]
          /\ outcome' = [outcome EXCEPT ![q] = "failure"]
          /\ qpc' = [qpc EXCEPT ![q] = "done"]
     ELSE /\ qpc' = [qpc EXCEPT ![q] = "delay"]
          /\ UNCHANGED <<logged, thrown, outcome>>
  /\ UNCHANGED <<cache, qurl, intent, sizeSeen, didFlush, reqs, lastPayload,
                 result>>
  /\ UNCHANGED <<pageVars, txVars, redVars, facVars>>

\* The 1000 ms timer fires: getRetry(url, intent + 1) runs up to the await
\* of this.cache.getTotalSize().
Retry(q) ==
  /\ qpc[q] = "delay"
  /\ intent' = [intent EXCEPT ![q] = NextIntent(@)]
  /\ sizeSeen' = [sizeSeen EXCEPT ![q] = getTotalSize(cache)]
  /\ didFlush' = [didFlush EXCEPT ![q] = FALSE]
  /\ qpc' = [qpc EXCEPT ![q] = "checked"]
  /\ UNCHANGED <<cache, qurl, reqs, fails, lastPayload, lastError, outcome,
                 result, thrown, logged>>
  /\ UNCHANGED <<pageVars, txVars, redVars, facVars>>

\* The ttl of a cached response runs out.
Expire(u) ==
  /\ cache[u] # NoEntry
  /\ cache' = [cache EXCEPT ![u] = NoEntry]
  /\ UNCHANGED <<qpc, qurl, intent, sizeSeen, didFlush, reqs, fails,
                 lastPayload, lastError, outcome, result, thrown, logged>>
  /\ UNCHANGED <<pageVars, txVars, redVars, facVars>>

NextRetry ==
  \/ \E q \in Queries, u \in Urls : Call(q, u)
  \/ \E q \in Queries : Flush(q)
  \/ \E q \in Queries : SendNoFlush(q)
  \/ \E q \in Queries : SendAfterFlush(q)
  \/ \E q \in Queries, p \in Payloads : RespondOk(q, p)
  \/ \E q \in Queries, k \in ErrKinds : RespondError(q, k)
  \/ \E q \in Queries : Retry(q)
  \/ \E u \in Urls : Expire(u)

----------------------------------------------------------------------------
\* loadPaginatedTxs

MaxRecords == 3
MaxPages   == 3

\* Page numbers past the upstream's last page all behave alike (the upstream
\* has nothing left to serve), so the model counts pages up to PageCap only.
PageCap == MaxPages + 1

\* The records first..last in upstream order.
Records(first, last) == [i \in 1..(last - first + 1) |-> first + i - 1]

\* The upstreams: k records, numbered in upstream order, cut into n pages of
\* any size (empty pages included).
Cuts(k, n) ==
  {c \in [0..n -> 0..k] :
     /\ c[0] = 0
     /\ c[n] = k
     /\ \A i \in 1..n : c[i - 1] <= c[i]}

PagesOf(c, n) == [i \in 1..n |-> Records(c[i - 1] + 1, c[i])]

RECURSIVE Flatten(_)
Flatten(pages) ==
  IF pages = <<>> THEN <<>> ELSE Head(pages) \o Flatten(Tail(pages))

\* The response body of `${url}&limit=1000000000&page=${p}`
PageBody(p) ==
  [txs |-> IF p <= Len(upPages) THEN upPages[p] ELSE <<>>,
   total_count |-> upTotal]

\* Mutant of Concat: the inner frame's list is put first.
ConcatSwapped(allTxs, rest) == rest \o allTxs

\* allTxs.concat(await this.loadPaginatedTxs(...))
Concat(allTxs, rest) == allTxs \o rest

\* `allTxs.length + totalAmount < Number(total_count)`
MorePages(len, total, total_count) == len + total < total_count

NoPaginate ==
  /\ upPages = <<>>
  /\ upTotal = 0
  /\ ppc = "off"
  /\ page = 1
  /\ totalAmount = 0
  /\ pending = <<>>
  /\ pIntent = 0
  /\ pResult = <<>>

InitPaginate ==
  /\ \E k \in 0..MaxRecords, n \in 1..MaxPages :
       \E c \in Cuts(k, n) : upPages = PagesOf(c, n)
  /\ upTotal \in 0..(MaxRecords + 1)
  /\ ppc = "idle"
  /\ page = 1
  /\ totalAmount = 0
  /\ pending = <<>>
  /\ pIntent = 0
  /\ pResult = <<>>

\* loadPaginatedTxs(url): page = 1, totalAmount = 0; runs up to the await of
\* getRetry.
LoadPaginatedTxs ==
  /\ ppc = "idle"
  /\ ppc' = "fetch"
  /\ page' = 1
  /\ totalAmount' = 0
  /\ pending' = <<>>
  /\ pIntent' = 0
  /\ UNCHANGED <<upPages, upTotal, pResult>>
  /\ UNCHANGED <<retryVars, txVars, redVars, facVars>>

\* getRetry returns the page: either recurse for the next page or return.
\* The suspended frames only prepend their allTxs when the inner call
\* returns, so their lists are kept concatenated in `pending`.
PageOk ==
  /\ ppc = "fetch"
  /\ LET body == PageBody(page)
         allTxs == <<>> \o body.txs
     IN IF MorePages(Len(allTxs), totalAmount, body.total_count)
        THEN /\ page' = IF page < PageCap THEN page + 1 ELSE page
             /\ totalAmount' = totalAmount + Len(allTxs)
             /\ pending' = Concat(pending, allTxs)
             /\ pIntent' = 0
             /\ UNCHANGED <<ppc, pResult>>
        ELSE /\ pResult' = Concat(pending, allTxs)
             /\ ppc' = "done"
             /\ UNCHANGED <<page, totalAmount, pending, pIntent>>
  /\ UNCHANGED <<upPages, upTotal>>
  /\ UNCHANGED <<retryVars, txVars, redVars, facVars>>

\* An attempt of the awaited getRetry fails: it retries, or gives up and the
\* error propagates through every frame of loadPaginatedTxs.
PageError ==
  /\ ppc = "fetch"
  /\ IF GiveUp(pIntent)
     THEN /\ ppc' = "failed"
          /\ UNCHANGED pIntent
     ELSE /\ pIntent' = pIntent + 1
          /\ UNCHANGED ppc
  /\ UNCHANGED <<upPages, upTotal, page, totalAmount, pending, pResult>>
  /\ UNCHANGED <<retryVars, txVars, redVars, facVars>>

NextPaginate ==
  \/ LoadPaginatedTxs
  \/ PageOk
  \/ PageError

----------------------------------------------------------------------------
\* polkadotV0-reducers: transaction aggregation

MaxCalls == 3

Hashes == {<<"0", "x", "a">>, <<"0", "x", "b">>}

\* The calls an extrinsic can carry; `method` doubles as method.meta.name.
Calls ==
  { [section |-> "staking", method |-> "bond", args |-> [value |-> 100]],
    [section |-> "staking", method |-> "bondExtra",
     args |-> [max_additional |-> 30]],
    [section |-> "staking", method |-> "nominate",
     args |-> << <<"V1", "V2">> >>],
    [section |-> "staking", method |-> "nominate",
     args |-> << <<"V2", "V3">> >>],
    [section |-> "staking", method |-> "unbond", args |-> [value |-> 10]],
    [section |-> "balances", method |-> "transfer", args |-> <<"A2", 5>>] }

SeqsUpTo(S, n) == UNION {[1..k -> S] : k \in 0..n}

Batch(calls) ==
  [section |-> "utility", method |-> "batch", args |-> <<calls>>]

\* Block events: phase.ApplyExtrinsic and the event's section and method.
Events ==
  { [phase |-> i, section |-> e[1], method |-> e[2]] :
      i \in 0..1,
      e \in {<<"system", "ExtrinsicSuccess">>, <<"utility", "BatchCompleted">>} }

lunieMessageTypes == [SEND |-> "SendTx", STAKE |-> "StakeTx",
                      UNKNOWN |-> "UnknownTx"]

getMessageType(section, method) ==
  CASE section = "balances" /\ method = "transfer" -> lunieMessageTypes.SEND
    [] section = "lunie" /\ method = "staking" -> lunieMessageTypes.STAKE
    [] OTHER -> lunieMessageTypes.UNKNOWN

\* JSON.parse(JSON.stringify(current.args, null, 2)): the args of Calls are
\* numbers, strings and arrays of them, which the round trip copies.
JsonCopy(args) == args

\* Mutant of EmitsStake: one of the two flags is enough.
EmitsStakeEither(hasBond, hasNominate) == hasBond \/ hasNominate

\* `return hasBond && hasNominate ? ... : reducedMessages`
EmitsStake(hasBond, hasNominate) == hasBond /\ hasNominate

\* One iteration of messages.forEach in aggregateLunieStaking.
AggregateStep(acc, current) ==
  LET isBond == current.section = "staking" /\ current.method = "bond"
      isExtra == current.section = "staking" /\ current.method = "bondExtra"
      isNominate == current.section = "staking" /\ current.method = "nominate"
      amount1 == IF isBond THEN acc.amount + current.args.value
                 ELSE acc.amount
      amount2 == IF isExtra THEN amount1 + current.args.max_additional
                 ELSE amount1
  IN [amount |-> amount2,
      validators |-> IF isNominate THEN acc.validators \o current.args[1]
                     ELSE acc.validators,
      hasBond |-> acc.hasBond \/ isBond \/ isExtra,
      hasNominate |-> acc.hasNominate \/ isNominate,
      reducedMessages |->
        Append(acc.reducedMessages,
               [section |-> current.section,
                method |-> current.method,
                args |-> JsonCopy(current.args)])]

RECURSIVE AggregateFold(_, _)
AggregateFold(acc, messages) ==
  IF messages = <<>> THEN acc
  ELSE AggregateFold(AggregateStep(acc, Head(messages)), Tail(messages))

aggregateLunieStaking(messages) ==
  LET acc == AggregateFold([amount |-> 0, validators |-> <<>>,
                            hasBond |-> FALSE, hasNominate |-> FALSE,
                            reducedMessages |-> <<>>], messages)
      aggregatedLunieStaking ==
        [method |-> "staking", section |-> "lunie",
         validators |-> acc.validators, amount |-> acc.amount]
  IN IF EmitsStake(acc.hasBond, acc.hasNominate)
     THEN acc.reducedMessages \o <<aggregatedLunieStaking>>
     ELSE acc.reducedMessages

\* Mutant of getExtrinsicSuccess: the events are not filtered by phase.
getExtrinsicSuccessAnyPhase(extrinsicIndex, events, isBatch) ==
  IF isBatch
  THEN \E e \in events : e.section = "utility" /\ e.method = "BatchCompleted"
  ELSE \E e \in events : e.section = "system" /\ e.method = "ExtrinsicSuccess"

getExtrinsicSuccess(extrinsicIndex, events, isBatch) ==
  LET own == {e \in events : e.phase = extrinsicIndex}
  IN IF isBatch
     THEN \E e \in own : e.section = "utility" /\ e.method = "BatchCompleted"
     ELSE \E e \in own : e.section = "system" /\ e.method = "ExtrinsicSuccess"

DigitChars == <<"0", "1", "2", "3", "4", "5", "6", "7", "8", "9">>

\* `${messageIndex}`: the decimal digits of a non-negative integer
RECURSIVE DecimalString(_)
DecimalString(n) ==
  IF n < 10 THEN <<DigitChars[n + 1]>>
  ELSE DecimalString(n \div 10) \o <<DigitChars[(n % 10) + 1]>>

\* Mutant of TxKey: the key leaves the message index out.
TxKeyNoIndex(hash, messageIndex) == hash \o <<"_">>

\* key: `${hash}_${messageIndex}`
TxKey(hash, messageIndex) == hash \o <<"_">> \o DecimalString(messageIndex)

\* The fields of the canonical transaction that depend on the extrinsic and
\* the message (details, fees, timestamp and involvedAddresses are left out).
parsePolkadotTransaction(hash, message, messageIndex, success) ==
  [id |-> hash,
   type |-> getMessageType(message.section, message.method),
   hash |-> hash,
   key |-> TxKey(hash, messageIndex),
   success |-> success]

\* messages.map((message, messageIndex) => ...): messageIndex counts from 0
transactionReducerV2(ext, index, events) ==
  LET hash == ext.hash
      isBatch == ext.method.method = "batch"
      messages == aggregateLunieStaking(
                    IF isBatch THEN ext.method.args[1] ELSE <<ext.method>>)
      success == getExtrinsicSuccess(index, events, isBatch)
  IN [messages |-> messages,
      transactions |->
        [i \in 1..Len(messages) |->
           parsePolkadotTransaction(hash, messages[i], i - 1, success)]]

NoTx ==
  /\ extrinsic = [hash |-> <<>>, method |-> Batch(<<>>)]
  /\ txIndex = 0
  /\ blockEvents = {}
  /\ txpc = "off"
  /\ txMessages = <<>>
  /\ txOut = <<>>

InitTx ==
  /\ \E h \in Hashes :
       \/ \E c \in Calls : extrinsic = [hash |-> h, method |-> c]
       \/ \E cs \in SeqsUpTo(Calls, MaxCalls) :
            extrinsic = [hash |-> h, method |-> Batch(cs)]
  /\ txIndex \in 0..1
  /\ blockEvents \in SUBSET Events
  /\ txpc = "raw"
  /\ txMessages = <<>>
  /\ txOut = <<>>

ReduceExtrinsic ==
  /\ txpc = "raw"
  /\ LET r == transactionReducerV2(extrinsic, txIndex, blockEvents)
     IN /\ txMessages' = r.messages
        /\ txOut' = r.transactions
  /\ txpc' = "reduced"
  /\ UNCHANGED <<extrinsic, txIndex, blockEvents>>
  /\ UNCHANGED <<retryVars, pageVars, redVars, facVars>>

NextTx == ReduceExtrinsic

----------------------------------------------------------------------------
\* polkadotV0-reducers: dbRewardsReducer

MaxRewards == 3

Validators == {"V1", "V2"}
Denoms     == {"uatom", "umuon"}
Amounts    == {3, 5, 10}

RewardEntries == [validator : Validators, denom : Denoms, amount : Amounts]

UndefinedValidator == [operatorAddress |-> Undefined]

\* validatorsDictionary: operator address -> validator; it may lack some.
ValidatorDictionaries ==
  {[v \in known |-> [operatorAddress |-> v]] : known \in {{"V1"}, Validators}}

Zeros(p) == [i \in 1..p |-> "0"]

\* Number.prototype.toFixed(p) of a whole number
ToFixedWhole(n, p) == DecimalString(n) \o <<".">> \o Zeros(p)

\* Mutant of RewardSum: the entry's amount replaces what was summed so far.
RewardSumOverwrite(previous, amount) == amount

\* `(sum[reward.validator][reward.denom] || 0) + reward.amount`
RewardSum(previous, amount) == previous + amount

\* The index of the first TRUE of a sequence of booleans, 0 if there is none.
IndexOf(found) ==
  IF \E i \in 1..Len(found) : found[i]
  THEN CHOOSE i \in 1..Len(found) :
         found[i] /\ \A j \in 1..(i - 1) : ~found[j]
  ELSE 0

\* One step of dbRewards.reduce: `sum` is kept as the list of its entries in
\* insertion order, [validator, denom, amount], grouped by validator as
\* Object.entries walks them.
RewardStep(sum, reward) ==
  LET same(e) == e.validator = reward.validator /\ e.denom = reward.denom
      sameValidator(e) == e.validator = reward.validator
      i == IndexOf([k \in 1..Len(sum) |-> same(sum[k])])
      lastOfValidator ==
        IF \E k \in 1..Len(sum) : sameValidator(sum[k])
        THEN CHOOSE k \in 1..Len(sum) :
               sameValidator(sum[k])
                 /\ \A j \in (k + 1)..Len(sum) : ~sameValidator(sum[j])
        ELSE Len(sum)
      fresh == [validator |-> reward.validator, denom |-> reward.denom,
                amount |-> RewardSum(0, reward.amount)]
  IN IF i # 0
     THEN [sum EXCEPT ![i].amount = RewardSum(@, reward.amount)]
     ELSE SubSeq(sum, 1, lastOfValidator) \o <<fresh>>
            \o SubSeq(sum, lastOfValidator + 1, Len(sum))

RECURSIVE RewardFold(_, _)
RewardFold(sum, rewards) ==
  IF rewards = <<>> THEN sum
  ELSE RewardFold(RewardStep(sum, Head(rewards)), Tail(rewards))

dbRewardsReducer(validatorsDictionary, dbRewards) ==
  LET aggregatedRewards == RewardFold(<<>>, dbRewards)
  IN [i \in 1..Len(aggregatedRewards) |->
        [validator |->
           IF aggregatedRewards[i].validator \in DOMAIN validatorsDictionary
           THEN validatorsDictionary[aggregatedRewards[i].validator]
           ELSE UndefinedValidator,
         denom |-> aggregatedRewards[i].denom,
         amount |-> ToFixedWhole(aggregatedRewards[i].amount, 6)]]

InitDbRewards ==
  /\ redFn = "dbRewardsReducer"
  /\ \E d \in ValidatorDictionaries, rs \in SeqsUpTo(RewardEntries, MaxRewards) :
       redIn = [validatorsDictionary |-> d, dbRewards |-> rs]

DbRewardsReducer ==
  /\ redPc = "in"
  /\ redFn = "dbRewardsReducer"
  /\ redOut' = dbRewardsReducer(redIn.validatorsDictionary, redIn.dbRewards)
  /\ redPc' = "out"
  /\ UNCHANGED <<redFn, redIn>>
  /\ UNCHANGED <<retryVars, pageVars, txVars, facVars>>

----------------------------------------------------------------------------
\* polkadotV0-reducers: tallyReducer

RECURSIVE Pow10(_)
Pow10(k) == IF k = 0 THEN 1 ELSE 10 * Pow10(k - 1)

\* A decimal number: mant * 10^(-exp).
Decimal(mant, exp) == [mant |-> mant, exp |-> exp]

\* network.coinLookup[0]: the view denom and the conversion factor 10^(-exp)
Networks ==
  { [viewDenom |-> "KSM", chainToViewConversionExp |-> e] : e \in {6, 7} }

\* toViewDenom multiplies the raw amount by the network's conversion factor.
toViewDenom(network, rawAmount) ==
  Decimal(rawAmount, network.chainToViewConversionExp)

\* The multiples of 10^(-p) nearest to num / den, as counts of 10^(-p).
\* toNumber() makes the quotient a binary double, so a quotient exactly
\* halfway between two multiples goes either way.
NearestScaled(num, den, p) ==
  LET q == (num * Pow10(p)) \div den
      r == (num * Pow10(p)) % den
  IN IF 2 * r < den THEN {q}
     ELSE IF 2 * r > den THEN {q + 1}
     ELSE {q, q + 1}

PadLeft(digits, p) == Zeros(p - Len(digits)) \o digits

\* toFixed(p) of scaled * 10^(-p)
FormatFixed(scaled, p) ==
  DecimalString(scaled \div Pow10(p)) \o <<".">>
    \o PadLeft(DecimalString(scaled % Pow10(p)), p)

\* Mutant of TallyTurnout: the share is taken of the amplified votes.
TallyTurnoutFromVotes(tally) == tally.ayes + tally.nays

\* `const turnout = BigNumber(tally.turnout)`
TallyTurnout(tally) == tally.turnout

\* The values tallyReducer can return: one per rounding of the quotient.
tallyReducer(network, tally, totalIssuance) ==
  LET turnout == TallyTurnout(tally)
      totalVoted == tally.ayes + tally.nays
  IN { [yes |-> toViewDenom(network, tally.ayes),
        no |-> toViewDenom(network, tally.nays),
        abstain |-> 0,
        veto |-> 0,
        total |-> toViewDenom(network, totalVoted),
        totalVotedPercentage |-> FormatFixed(scaled, 4)] :
       scaled \in NearestScaled(turnout, totalIssuance, 4) }

TallyVotes     == {0, 100, 200}
TallyTurnouts  == {0, 1, 2, 300}
TotalIssuances == {3, 1000, 20000}

InitTally ==
  /\ redFn = "tallyReducer"
  /\ \E n \in Networks, a \in TallyVotes, b \in TallyVotes,
        t \in TallyTurnouts, i \in TotalIssuances :
       redIn = [network |-> n,
                tally |-> [ayes |-> a, nays |-> b, turnout |-> t],
                totalIssuance |-> i]

TallyReducer ==
  /\ redPc = "in"
  /\ redFn = "tallyReducer"
  /\ redOut' \in tallyReducer(redIn.network, redIn.tally, redIn.totalIssuance)
  /\ redPc' = "out"
  /\ UNCHANGED <<redFn, redIn>>
  /\ UNCHANGED <<retryVars, pageVars, txVars, facVars>>

----------------------------------------------------------------------------
\* polkadotV0-reducers: councilTallyReducer

CouncilMembers == {"A", "B"}
VotingPowers   == {1, 2}

NoDupSeqs(S) ==
  {s \in SeqsUpTo(S, Cardinality(S)) :
     \A i, j \in 1..Len(s) : i # j => s[i] # s[j]}

Range(s) == {s[i] : i \in 1..Len(s)}

\* electionInfo.members: [member, voting power] pairs, a member once
Rosters ==
  {r \in SeqsUpTo(CouncilMembers \X VotingPowers, Cardinality(CouncilMembers)) :
     \A i, j \in 1..Len(r) : i # j => r[i][1] # r[j][1]}

RECURSIVE SumPowers(_)
SumPowers(members) ==
  IF members = <<>> THEN 0
  ELSE Head(members)[2] + SumPowers(Tail(members))

\* electionInfo.members.find(e => e[0].toHuman() === member.toHuman())
FindMember(roster, member) ==
  IndexOf([k \in 1..Len(roster) |-> roster[k][1] = member])

\* councilMembers.reduce: the roster power of each listed council member
RECURSIVE TotalVoted(_, _)
TotalVoted(councilMembers, roster) ==
  IF councilMembers = <<>> THEN 0
  ELSE LET i == FindMember(roster, Head(councilMembers))
       IN (IF i # 0 THEN roster[i][2] ELSE 0)
            + TotalVoted(Tail(councilMembers), roster)

\* BigNumber(num).div(den).toNumber().toFixed(4)
DivToFixed4(num, den) ==
  IF den = 0
  THEN IF num = 0 THEN {<<"N", "a", "N">>}
       ELSE {<<"I", "n", "f", "i", "n", "i", "t", "y">>}
  ELSE {FormatFixed(scaled, 4) : scaled \in NearestScaled(num, den, 4)}

councilTallyReducer(votes, councilMembers, electionInfo) ==
  LET total == Len(votes.ayes) + Len(votes.nays)
      totalCouncilVotingPower == SumPowers(electionInfo.members)
      totalVoted == TotalVoted(councilMembers, electionInfo.members)
  IN { [yes |-> Len(votes.ayes),
        no |-> Len(votes.nays),
        abstain |-> 0,
        veto |-> 0,
        total |-> total,
        totalVotedPercentage |-> pct] :
       pct \in DivToFixed4(totalCouncilVotingPower, totalVoted) }

InitCouncilTally ==
  /\ redFn = "councilTallyReducer"
  /\ \E ayes \in NoDupSeqs(CouncilMembers), nays \in NoDupSeqs(CouncilMembers),
        council \in NoDupSeqs(CouncilMembers), roster \in Rosters :
       /\ Range(ayes) \cap Range(nays) = {}
       /\ redIn = [votes |-> [ayes |-> ayes, nays |-> nays],
                   councilMembers |-> council,
                   electionInfo |-> [members |-> roster]]

CouncilTallyReducer ==
  /\ redPc = "in"
  /\ redFn = "councilTallyReducer"
  /\ redOut' \in councilTallyReducer(redIn.votes, redIn.councilMembers,
                                     redIn.electionInfo)
  /\ redPc' = "out"
  /\ UNCHANGED <<redFn, redIn>>
  /\ UNCHANGED <<retryVars, pageVars, txVars, facVars>>

----------------------------------------------------------------------------
\* polkadotV0-reducers: identityReducer

\* Strings are sequences of characters.
DisplayNames == {<<>>, <<"F", "o", "o">>, <<"B", "a", "r">>}
Addresses    == {<<"a", "d", "d", "r", "1">>, <<"a", "d", "d", "r", "2">>}

\* An identity has each of displayParent and display, or lacks it.
Identities ==
  UNION {[fields -> DisplayNames] :
           fields \in SUBSET {"displayParent", "display"}}

\* `identity.f && identity.f !== ''`
NonEmpty(identity, f) ==
  f \in DOMAIN identity /\ identity[f] # <<>>

\* `${identity.f}`
Interpolate(identity, f) ==
  IF f \in DOMAIN identity THEN identity[f]
  ELSE <<"u", "n", "d", "e", "f", "i", "n", "e", "d">>

\* Mutant of HasParentAndDisplay: the display is not looked at.
HasParentOnly(identity) == NonEmpty(identity, "displayParent")

\* the condition of the if
HasParentAndDisplay(identity) ==
  NonEmpty(identity, "displayParent") /\ NonEmpty(identity, "display")

identityReducer(address, identity) ==
  IF HasParentAndDisplay(identity)
  THEN Interpolate(identity, "displayParent") \o <<"/">>
         \o Interpolate(identity, "display")
  ELSE IF NonEmpty(identity, "display") THEN identity.display ELSE address

InitIdentity ==
  /\ redFn = "identityReducer"
  /\ \E a \in Addresses, i \in Identities :
       redIn = [address |-> a, identity |-> i]

IdentityReducer ==
  /\ redPc = "in"
  /\ redFn = "identityReducer"
  /\ redOut' = identityReducer(redIn.address, redIn.identity)
  /\ redPc' = "out"
  /\ UNCHANGED <<redFn, redIn>>
  /\ UNCHANGED <<retryVars, pageVars, txVars, facVars>>

----------------------------------------------------------------------------
\* polkadotV0-reducers: coinReducer and balanceV2Reducer

MaxRaw == 11

\* A raw chain amount n, handed over as a decimal string or as a number.
RawAmounts == [str : BOOLEAN, n : 0..MaxRaw]

\* `!amount`: the number 0 is falsy, a string of digits is not
Falsy(amount) == ~amount.str /\ amount.n = 0

\* fixDecimalsAndRoundUp rounds up (ceiling) to `precision` decimal places.
fixDecimalsAndRoundUp(value, precision) ==
  IF value.exp <= precision
  THEN Decimal(value.mant * Pow10(precision - value.exp), precision)
  ELSE LET unit == Pow10(value.exp - precision)
       IN Decimal((value.mant + unit - 1) \div unit, precision)

coinReducer(network, amount, decimals) ==
  IF Falsy(amount)
  THEN [amount |-> Decimal(0, 0), denom |-> ""]
  ELSE [denom |-> network.viewDenom,
        amount |-> fixDecimalsAndRoundUp(
                     Decimal(amount.n, network.chainToViewConversionExp),
                     decimals)]

\* What fiatValueAPI.calculateFiatValues(...)[denom] resolves to.
FiatValues == {Undefined, "1.00 EUR"}

\* `total: totalLunieCoin.amount`
ReportedTotal(availableLunieCoin, totalLunieCoin) == totalLunieCoin.amount

balanceV2Reducer(network, balance, total, staked, availableFiat, totalFiat) ==
  LET availableLunieCoin == coinReducer(network, balance, 6)
      totalLunieCoin == coinReducer(network, total, 6)
      stakedLunieCoin == coinReducer(network, staked, 6)
  IN IF total.str /\ total.n = 0
     THEN [id |-> availableLunieCoin.denom,
           type |-> "STAKE",
           available |-> Decimal(0, 0),
           total |-> Decimal(0, 0),
           staked |-> Decimal(0, 0),
           denom |-> availableLunieCoin.denom,
           availableFiatValue |-> availableFiat,
           fiatValue |-> totalFiat]
     ELSE [id |-> availableLunieCoin.denom,
           type |-> "STAKE",
           available |-> availableLunieCoin.amount,
           total |-> ReportedTotal(availableLunieCoin, totalLunieCoin),
           staked |-> stakedLunieCoin.amount,
           denom |-> availableLunieCoin.denom,
           availableFiatValue |-> availableFiat,
           fiatValue |-> totalFiat]

InitBalanceV2 ==
  /\ redFn = "balanceV2Reducer"
  /\ \E n \in Networks, b \in RawAmounts, t \in RawAmounts, s \in RawAmounts :
       redIn = [network |-> n, balance |-> b, total |-> t, staked |-> s]

\* The two awaited fiat lookups resolve and the reducer returns.
BalanceV2Reducer ==
  /\ redPc = "in"
  /\ redFn = "balanceV2Reducer"
  /\ \E availableFiatValue \in FiatValues, totalFiatValue \in FiatValues :
       redOut' = balanceV2Reducer(redIn.network, redIn.balance, redIn.total,
                                  redIn.staked, availableFiatValue,
                                  totalFiatValue)
  /\ redPc' = "out"
  /\ UNCHANGED <<redFn, redIn>>
  /\ UNCHANGED <<retryVars, pageVars, txVars, facVars>>

----------------------------------------------------------------------------
\* polkadotV0-reducers: the reducer calls

NoRed ==
  /\ redFn = "none"
  /\ redIn = <<>>
  /\ redPc = "off"
  /\ redOut = <<>>

InitRed ==
  /\ redPc = "in"
  /\ redOut = <<>>
  /\ \/ InitDbRewards
     \/ InitTally
     \/ InitCouncilTally
     \/ InitIdentity
     \/ InitBalanceV2

NextRed ==
  \/ DbRewardsReducer
  \/ TallyReducer
  \/ CouncilTallyReducer
  \/ IdentityReducer
  \/ BalanceV2Reducer

----------------------------------------------------------------------------
\* CosmosV0API: the facade operations

\* network.address_prefix, which is also this.delegatorBech32Prefix
AddressPrefix == <<"c", "o", "s", "m", "o", "s">>

FacadeAddresses ==
  { <<"c", "o", "s", "m", "o", "s", "1", "a">>,
    <<"c", "o", "s", "m", "o", "s">>,
    <<"c", "o", "s">>,
    <<"x", "c", "o", "s", "m", "o", "s", "1">>,
    <<"t", "e", "r", "r", "a", "1", "a">>,
    <<>> }

\* String.prototype.startsWith
StartsWith(s, prefix) ==
  Len(s) >= Len(prefix) /\ SubSeq(s, 1, Len(prefix)) = prefix

\* Mutant of checkAddress: every address is let through.
checkAddressAny(address) == TRUE

\* checkAddress(address) does not throw
checkAddress(address) == StartsWith(address, AddressPrefix)

AddressOps ==
  { "getDelegatorVote", "getBalancesFromAddress", "getBalancesV2FromAddress",
    "getAccountInfo", "getDelegationsForDelegatorAddress",
    "getUndelegationsForDelegatorAddress", "getDelegationForValidator",
    "getRewards", "getTransactions" }

FacadeOps ==
  AddressOps \cup {"getProposalById", "getSelfStake", "getValidatorSigningInfo",
                   "getAllValidators"}

\* The members of the Promise.all of getAllValidators.
ValidatorQueries ==
  { "staking/validators?status=unbonding", "staking/validators?status=bonded",
    "staking/validators?status=unbonded", "minting/annual-provisions",
    "validatorsets", "slashing/parameters" }

\* The two consensus keys getValidatorSigningInfo never asks about.
SigningInfoExceptions == {"exception1", "exception2"}
ConsensusPubKeys      == SigningInfoExceptions \cup {"pubkey"}

\* What each operation awaits, in order: the sub-queries it dispatches
\* together (a single this.query, or the members of a Promise.all with the
\* queries of the operations called in it).
Stages(op) ==
  CASE op = "getDelegatorVote" -> << {"gov/proposals/votes"} >>
    [] op = "getBalancesFromAddress" -> << {"bank/balances"} >>
    [] op = "getBalancesV2FromAddress" ->
         << {"bank/balances", "staking/delegations",
             "staking/unbonding_delegations"},
            {"distribution/rewards"} >>
    [] op = "getAccountInfo" -> << {"auth/accounts"} >>
    [] op = "getDelegationsForDelegatorAddress" -> << {"staking/delegations"} >>
    [] op = "getUndelegationsForDelegatorAddress" ->
         << {"staking/unbonding_delegations"} >>
    [] op = "getDelegationForValidator" -> << {"staking/delegation"} >>
    [] op = "getRewards" -> << {"distribution/rewards"} >>
    [] op = "getTransactions" -> << {"txs?sender"} >>
    [] op = "getProposalById" ->
         << {"gov/proposal"},
            {"gov/proposal/tally", "gov/proposal/proposer", "staking/pool",
             "gov/proposals/votes", "gov/proposal/deposits",
             "gov/proposal/tally2", "gov/parameters/tallying",
             "gov/parameters/deposit", "db/links"} >>
    [] op = "getSelfStake" -> << {"staking/delegation"} >>
    [] op = "getValidatorSigningInfo" -> << {"slashing/signing_info"} >>
    [] op = "getAllValidators" ->
         << ValidatorQueries, {"slashing/signing_info"} >>

FacadeSubs == UNION {UNION Range(Stages(op)) : op \in FacadeOps}

\* db.getNetworkLinks is no upstream query: it does not go through getRetry.
IsUpstream(sub) == sub # "db/links"

\* What the operation does when the sub-query's promise rejects.
OnFail(op, sub) ==
  CASE op = "getDelegationForValidator" -> "default"
    [] op = "getValidatorSigningInfo" -> "default"
    [] op = "getAllValidators" /\ sub = "slashing/signing_info" -> "default"
    [] op = "getSelfStake" -> "marker"
    [] op = "getProposalById" /\ sub = "gov/proposal" -> "userInput"
    [] op = "getProposalById" /\ sub = "gov/proposal/proposer" -> "default"
    [] OTHER -> "throw"

\* The errors a query can end with: the response status (0: no response),
\* and what response.body.error is.
FacadeError(kind, status, body) ==
  [kind |-> kind, status |-> status, body |-> body]

NoFacadeError == FacadeError("none", 0, "none")
UserInputError == FacadeError("UserInputError", 0, "none")
TypeError == FacadeError("TypeError", 0, "none")
SyntaxError == FacadeError("SyntaxError", 0, "none")
DbError == FacadeError("DbError", 0, "none")

UpstreamErrors ==
  { FacadeError("UpstreamError", 500, "no delegation for this"),
    FacadeError("UpstreamError", 500, "other message"),
    FacadeError("UpstreamError", 500, "not JSON"),
    FacadeError("UpstreamError", 404, "no delegation for this"),
    FacadeError("UpstreamError", 404, "other message"),
    FacadeError("UpstreamError", 0, "none") }

\* A query that fails has issued MaxIntent + 1 requests and waited MaxIntent
\* times; one that succeeds after k failed attempts, k + 1 and k.
RequestsOf(failedAttempts) == failedAttempts + 1
DelaysOf(failedAttempts) == failedAttempts

NoOutcome == [kind |-> "none", error |-> NoFacadeError, value |-> "none"]
Thrown(error) == [kind |-> "thrown", error |-> error, value |-> "none"]
ReturnedValue(value) ==
  [kind |-> "returned", error |-> NoFacadeError, value |-> value]

\* Mutant of IsNoDelegation: the status is not looked at.
IsNoDelegationAnyStatus(error) == error.body = "no delegation for this"

\* `status === 500` and `message.startsWith('no delegation for this')`
IsNoDelegation(error) ==
  error.status = 500 /\ error.body = "no delegation for this"

\* What the catch block of getSelfStake ends with: 0 is returned, or an
\* error is thrown (reading error.extensions.response of an error without a
\* response, and parsing a body that is no JSON, throw themselves).
SelfStakeCatch(error) ==
  IF error.status = 0 THEN Thrown(TypeError)
  ELSE IF error.status = 500 /\ error.body = "not JSON" THEN Thrown(SyntaxError)
  ELSE IF IsNoDelegation(error) THEN ReturnedValue("0")
  ELSE Thrown(error)

FacadeArgs(op) ==
  IF op \in AddressOps THEN {[address |-> a] : a \in FacadeAddresses}
  ELSE IF op = "getValidatorSigningInfo"
  THEN {[validatorConsensusPubKey |-> k] : k \in ConsensusPubKeys}
  ELSE IF op = "getProposalById" THEN {[proposalId |-> 1]}
  ELSE IF op = "getAllValidators" THEN {[height |-> "latest"]}
  ELSE {[validator |-> "V1"]}

NoFacade ==
  /\ fop = "none"
  /\ farg = <<>>
  /\ fpc = "off"
  /\ fstage = 0
  /\ fsub = [s \in FacadeSubs |-> "unsent"]
  /\ fErr = [s \in FacadeSubs |-> NoFacadeError]
  /\ fReqs = 0
  /\ fDelays = 0
  /\ fOutcome = NoOutcome

InitFacade ==
  /\ fop \in FacadeOps
  /\ farg \in FacadeArgs(fop)
  /\ fpc = "called"
  /\ fstage = 0
  /\ fsub = [s \in FacadeSubs |-> "unsent"]
  /\ fErr = [s \in FacadeSubs |-> NoFacadeError]
  /\ fReqs = 0
  /\ fDelays = 0
  /\ fOutcome = NoOutcome

Dispatched(subs) ==
  [s \in FacadeSubs |-> IF s \in subs THEN "inflight" ELSE fsub[s]]

\* checkAddress (in getAccountInfo, the same test inline) throws.
RejectAddress ==
  /\ fpc = "called"
  /\ fop \in AddressOps
  /\ ~checkAddress(farg.address)
  /\ fOutcome' = Thrown(UserInputError)
  /\ fpc' = "done"
  /\ UNCHANGED <<fop, farg, fstage, fsub, fErr, fReqs, fDelays>>
  /\ UNCHANGED <<retryVars, pageVars, txVars, redVars>>

\* getValidatorSigningInfo: `throw Error()` for the two keys, caught by its
\* own catch, which returns the default signing info.
SkipException ==
  /\ fpc = "called"
  /\ fop = "getValidatorSigningInfo"
  /\ farg.validatorConsensusPubKey \in SigningInfoExceptions
  /\ fOutcome' = ReturnedValue("default")
  /\ fpc' = "done"
  /\ UNCHANGED <<fop, farg, fstage, fsub, fErr, fReqs, fDelays>>
  /\ UNCHANGED <<retryVars, pageVars, txVars, redVars>>

\* getTransactions: the first loadPaginatedTxs is called, then
\* this.loadPaginatedTxsget, which is no function.
TransactionsTypeError ==
  /\ fpc = "called"
  /\ fop = "getTransactions"
  /\ checkAddress(farg.address)
  /\ fsub' = Dispatched(Stages(fop)[1])
  /\ fstage' = 1
  /\ fOutcome' = Thrown(TypeError)
  /\ fpc' = "done"
  /\ UNCHANGED <<fop, farg, fErr, fReqs, fDelays>>
  /\ UNCHANGED <<retryVars, pageVars, txVars, redVars>>

\* The operation runs to its first await.
Dispatch ==
  /\ fpc = "called"
  /\ fop # "getTransactions"
  /\ fop \in AddressOps => checkAddress(farg.address)
  /\ fop = "getValidatorSigningInfo" =>
       farg.validatorConsensusPubKey \notin SigningInfoExceptions
  /\ fsub' = Dispatched(Stages(fop)[1])
  /\ fstage' = 1
  /\ fpc' = "waiting"
  /\ UNCHANGED <<fop, farg, fErr, fReqs, fDelays, fOutcome>>
  /\ UNCHANGED <<retryVars, pageVars, txVars, redVars>>

\* A sub-query resolves, after failedAttempts failed attempts.
SubResolves(sub, failedAttempts) ==
  /\ fpc = "waiting"
  /\ fsub[sub] = "inflight"
  /\ ~GiveUp(failedAttempts - 1)
  /\ fsub' = [fsub EXCEPT ![sub] = "ok"]
  /\ fReqs' = fReqs + (IF IsUpstream(sub) THEN RequestsOf(failedAttempts) ELSE 0)
  /\ fDelays' = fDelays + (IF IsUpstream(sub) THEN DelaysOf(failedAttempts) ELSE 0)
  /\ UNCHANGED <<fop, farg, fpc, fstage, fErr, fOutcome>>
  /\ UNCHANGED <<retryVars, pageVars, txVars, redVars>>

\* A sub-query rejects: getRetry gave up and threw the error, and the
\* operation's catch for it, if it has one, runs.
SubRejects(sub, error) ==
  /\ fpc = "waiting"
  /\ fsub[sub] = "inflight"
  /\ IF IsUpstream(sub) THEN error \in UpstreamErrors ELSE error = DbError
  /\ fErr' = [fErr EXCEPT ![sub] = error]
  /\ fReqs' = fReqs + (IF IsUpstream(sub) THEN RequestsOf(MaxIntent) ELSE 0)
  /\ fDelays' = fDelays + (IF IsUpstream(sub) THEN DelaysOf(MaxIntent) ELSE 0)
  /\ LET policy == OnFail(fop, sub)
     IN /\ fsub' = [fsub EXCEPT
                      ![sub] = IF policy = "default" THEN "defaulted"
                               ELSE "failed"]
        /\ fOutcome' =
             CASE policy = "default" -> fOutcome
               [] policy = "userInput" -> Thrown(UserInputError)
               [] policy = "marker" -> SelfStakeCatch(error)
               [] OTHER -> Thrown(error)
        /\ fpc' = IF policy = "default" THEN fpc ELSE "done"
  /\ UNCHANGED <<fop, farg, fstage>>
  /\ UNCHANGED <<retryVars, pageVars, txVars, redVars>>

\* Mutant of StageSettled: one settled sub-query is enough to go on.
StageSettledAny ==
  \E s \in Stages(fop)[fstage] : fsub[s] \in {"ok", "defaulted"}

\* `await Promise.all([...])` has resolved
StageSettled ==
  \A s \in Stages(fop)[fstage] : fsub[s] \in {"ok", "defaulted"}

\* The awaited sub-queries have all settled and the operation goes on to
\* its next await.
NextStage ==
  /\ fpc = "waiting"
  /\ StageSettled
  /\ fstage < Len(Stages(fop))
  /\ fsub' = Dispatched(Stages(fop)[fstage + 1])
  /\ fstage' = fstage + 1
  /\ UNCHANGED <<fop, farg, fpc, fErr, fReqs, fDelays, fOutcome>>
  /\ UNCHANGED <<retryVars, pageVars, txVars, redVars>>

\* The awaited sub-queries have all settled and the operation returns what
\* its reducer makes of them.
Return ==
  /\ fpc = "waiting"
  /\ StageSettled
  /\ fstage = Len(Stages(fop))
  /\ fOutcome' = ReturnedValue(
                   IF fop = "getValidatorSigningInfo"
                        /\ fsub["slashing/signing_info"] = "defaulted"
                   THEN "default" ELSE "reduced")
  /\ fpc' = "done"
  /\ UNCHANGED <<fop, farg, fstage, fsub, fErr, fReqs, fDelays>>
  /\ UNCHANGED <<retryVars, pageVars, txVars, redVars>>

NextFacade ==
  \/ RejectAddress
  \/ SkipException
  \/ TransactionsTypeError
  \/ Dispatch
  \/ \E sub \in FacadeSubs, failedAttempts \in 0..MaxIntent :
       SubResolves(sub, failedAttempts)
  \/ \E sub \in FacadeSubs, error \in UpstreamErrors \cup {DbError} :
       SubRejects(sub, error)
  \/ NextStage
  \/ Return

----------------------------------------------------------------------------
\* Specifications

Init == InitRetry /\ NoPaginate /\ NoTx /\ NoRed /\ NoFacade

Next == NextRetry

Spec == Init /\ [][Next]_vars

PaginateInit == NoRetry /\ InitPaginate /\ NoTx /\ NoRed /\ NoFacade

SpecPaginate == PaginateInit /\ [][NextPaginate]_vars

\* The event loop runs every continuation that is ready.
FairSpecPaginate == SpecPaginate /\ WF_vars(NextPaginate)

TxInit == NoRetry /\ NoPaginate /\ InitTx /\ NoRed /\ NoFacade

SpecTx == TxInit /\ [][NextTx]_vars

RedInit == NoRetry /\ NoPaginate /\ NoTx /\ InitRed /\ NoFacade

SpecRed == RedInit /\ [][NextRed]_vars

FacadeInit == NoRetry /\ NoPaginate /\ NoTx /\ NoRed /\ InitFacade

SpecFacade == FacadeInit /\ [][NextFacade]_vars

----------------------------------------------------------------------------
\* Claims about getRetry (checked under Spec)

\* C1: a getRetry call whose every attempt fails raises the failure after
\* exactly 3 retries: 4 requests were sent, never more than 4 are sent, and
\* the failure is raised when the fourth has failed.
C1_FailureAfterExactlyThreeRetries ==
  \A q \in Queries :
    /\ reqs[q] <= 4
    /\ outcome[q] = "failure" => (reqs[q] = 4 /\ fails[q] = 4)
    /\ fails[q] = 4 => (outcome[q] = "failure" /\ qpc[q] = "done")
    /\ (fails[q] \in 1..3 /\ lastPayload[q] = Undefined) => outcome[q] = "none"

C1_Witness ==
  \E q \in Queries : outcome[q] = "failure" /\ reqs[q] = 4

\* C2: a getRetry call whose upstream fails k times (k in 0..3) and then
\* succeeds returns the payload of that first successful attempt, and no
\* error reaches the caller.
C2_SuccessAfterFailuresReturnsPayload ==
  \A q \in Queries :
    /\ lastPayload[q] \in Payloads =>
         (outcome[q] = "success" /\ result[q] = lastPayload[q]
            /\ qpc[q] = "done")
    /\ outcome[q] = "success" =>
         (fails[q] \in 0..3 /\ thrown[q] = NoError /\ logged[q] = <<>>
            /\ result[q] \in Payloads)

C2_Witness ==
  \E q \in Queries :
    outcome[q] = "success" /\ fails[q] = 2 /\ reqs[q] = 3
      /\ result[q] = "p2"

C4_SizeCheckedBeforeEveryRequest ==
  [][\A q \in Queries :
       /\ reqs'[q] = reqs[q] + 1 => (sizeSeen[q] > 100000 <=> didFlush[q])
       /\ (didFlush'[q] /\ ~didFlush[q]) =>
            (sizeSeen[q] > 100000 /\ \A u \in Urls : cache'[u] = NoEntry)
       /\ (qpc'[q] # qpc[q] /\ ~(didFlush'[q] /\ ~didFlush[q])) =>
            \A u \in Urls : cache[u] # NoEntry => cache'[u] # NoEntry
    ]_vars

C4_Witness ==
  \E q \in Queries :
    qpc[q] = "waiting" /\ didFlush[q] /\ intent[q] > 0
      /\ sizeSeen[q] > 100000 /\ \A u \in Urls : cache[u] = NoEntry

\* C5 as stated: the size check and the flush it triggers are atomic: while
\* a call is between its size check and the flush the check triggers, no
\* step of another in-flight call changes the cache, so the flush is never
\* decided on a size another call has made stale.
C5_CheckThenFlushAtomic ==
  [][\A q \in Queries :
       (qpc[q] = "checked" /\ sizeSeen[q] > 100000) =>
         \A r \in Queries \ {q} : qpc'[r] # qpc[r] => cache' = cache
    ]_vars

----------------------------------------------------------------------------
\* Claims about loadPaginatedTxs (checked under SpecPaginate)

\* The upstream is consistent: total_count is the number of records it
\* serves over its pages.
ConsistentUpstream == upTotal = Len(Flatten(upPages))

\* C6: against an upstream that reports total_count = N on every page and
\* serves the N records over pages of any size, loadPaginatedTxs returns
\* exactly the N records in upstream order, none duplicated, none dropped.
C6_PaginationReturnsAllInOrder ==
  (ppc = "done" /\ ConsistentUpstream) =>
    (Len(pResult) = upTotal /\ pResult = Records(1, upTotal))

C6_Witness ==
  /\ ppc = "done"
  /\ ConsistentUpstream
  /\ upTotal = 3
  /\ page = 3
  /\ pResult = <<1, 2, 3>>

\* C7 as stated: loadPaginatedTxs terminates (returns or throws) for every
\* upstream, also one whose total_count stays above what it serves.
C7_PaginationTerminates == <>(ppc \in {"done", "failed"})

----------------------------------------------------------------------------
\* Claims about the transaction reducers (checked under SpecTx)

\* The primitives handed to aggregateLunieStaking.
InputMessages ==
  IF extrinsic.method.method = "batch"
  THEN extrinsic.method.args[1]
  ELSE <<extrinsic.method>>

IsBondLike(m) ==
  m.section = "staking" /\ m.method \in {"bond", "bondExtra"}

IsNominate(m) == m.section = "staking" /\ m.method = "nominate"

IsSynthetic(m) == m.section = "lunie" /\ m.method = "staking"

HasSynthetic == txMessages # <<>> /\ IsSynthetic(txMessages[Len(txMessages)])

\* C8: aggregateLunieStaking returns every input primitive, one element per
\* input in input order, and appends exactly one lunie.staking record as the
\* last element iff the input has a bond or bondExtra and a nominate;
\* otherwise the output has the input's length and no synthetic record.
C8_PrimitivesKeptStakeIffBondAndNominate ==
  txpc = "reduced" =>
    LET in == InputMessages
        out == txMessages
        n == Len(in)
        both == (\E i \in 1..n : IsBondLike(in[i]))
                  /\ (\E i \in 1..n : IsNominate(in[i]))
    IN /\ Len(out) = IF both THEN n + 1 ELSE n
       /\ \A i \in 1..n :
            /\ out[i].section = in[i].section
            /\ out[i].method = in[i].method
            /\ out[i].args = in[i].args
       /\ both => IsSynthetic(out[n + 1])
       /\ \A i \in 1..n : ~IsSynthetic(out[i])

C8_Witness ==
  /\ txpc = "reduced"
  /\ Len(InputMessages) = 2
  /\ IsBondLike(InputMessages[1])
  /\ IsNominate(InputMessages[2])
  /\ Len(txMessages) = 3
  /\ IsSynthetic(txMessages[3])

RECURSIVE SumAmounts(_)
SumAmounts(ms) ==
  IF ms = <<>> THEN 0
  ELSE (IF Head(ms).section = "staking" /\ Head(ms).method = "bond"
        THEN Head(ms).args.value
        ELSE IF Head(ms).section = "staking" /\ Head(ms).method = "bondExtra"
        THEN Head(ms).args.max_additional
        ELSE 0) + SumAmounts(Tail(ms))

Targets(ms) ==
  UNION {{m.args[1][j] : j \in 1..Len(m.args[1])} :
           m \in {ms[i] : i \in {k \in 1..Len(ms) : IsNominate(ms[k])}}}

\* C9 as stated: the synthetic record's amount is the sum of the bond values
\* and bondExtra max_additional of the input, and its validators list is the
\* union of the nominate target lists: every target once.
C9_StakeSumsAmountsAndUnionsTargets ==
  (txpc = "reduced" /\ HasSynthetic) =>
    LET stake == txMessages[Len(txMessages)]
    IN /\ stake.amount = SumAmounts(InputMessages)
       /\ {stake.validators[j] : j \in 1..Len(stake.validators)}
            = Targets(InputMessages)
       /\ \A j, k \in 1..Len(stake.validators) :
            j # k => stake.validators[j] # stake.validators[k]

\* C10: transactionReducerV2 returns one canonical transaction per element
\* of the aggregated message list; each has the extrinsic hash as id and
\* hash and the key hash_i with i its position, counted from 0, so the keys
\* of one extrinsic are pairwise distinct.
C10_OneRecordPerMessageDistinctKeys ==
  txpc = "reduced" =>
    /\ Len(txOut) = Len(txMessages)
    /\ \A i \in 1..Len(txOut) :
         /\ txOut[i].id = extrinsic.hash
         /\ txOut[i].hash = extrinsic.hash
         /\ txOut[i].key = extrinsic.hash \o <<"_">> \o DecimalString(i - 1)
         /\ txOut[i].type
              = getMessageType(txMessages[i].section, txMessages[i].method)
    /\ \A i, j \in 1..Len(txOut) : i # j => txOut[i].key # txOut[j].key

C10_Witness ==
  /\ txpc = "reduced"
  /\ Len(txOut) = 4
  /\ txOut[4].type = "StakeTx"
  /\ txOut[4].key = <<"0", "x", "a", "_", "3">>
  /\ txOut[1].key = <<"0", "x", "a", "_", "0">>

\* C11: the success status is the same on every canonical record of one
\* extrinsic: for a non-batch extrinsic at block index i it is true iff the
\* events of phase ApplyExtrinsic = i contain system.ExtrinsicSuccess, for a
\* batch iff they contain utility.BatchCompleted; without that event (also
\* when it is there for another index only) it is false.
C11_SuccessFromOwnEventsOncePerExtrinsic ==
  txpc = "reduced" =>
    LET wanted == IF extrinsic.method.method = "batch"
                  THEN <<"utility", "BatchCompleted">>
                  ELSE <<"system", "ExtrinsicSuccess">>
        expected == [phase |-> txIndex, section |-> wanted[1],
                     method |-> wanted[2]] \in blockEvents
    IN \A i \in 1..Len(txOut) : txOut[i].success = expected

C11_Witness ==
  /\ txpc = "reduced"
  /\ extrinsic.method.method = "batch"
  /\ Len(txOut) = 3
  /\ txIndex = 0
  /\ blockEvents = {[phase |-> 1, section |-> "utility",
                     method |-> "BatchCompleted"],
                    [phase |-> 0, section |-> "system",
                     method |-> "ExtrinsicSuccess"]}
  /\ \A i \in 1..3 : txOut[i].success = FALSE

\* What holds of every step for the counters of the queries in flight: a
\* query's attempt counter moves only with its own failures, a query issues
\* at most MaxIntent + 1 requests, and it fails only on the failure of its
\* own last request.
OwnRetryBudget ==
  \A q \in Queries :
    /\ reqs'[q] <= MaxIntent + 1
    /\ intent'[q] <= fails'[q]
    /\ \A other \in Queries \ {q} :
         fails'[other] # fails[other] => intent'[q] = intent[q]
    /\ (outcome'[q] = "failure" /\ outcome[q] # "failure") =>
         /\ qpc[q] = "waiting"
         /\ fails'[q] = MaxIntent + 1
         /\ reqs'[q] = MaxIntent + 1

Succeeds(q) == outcome'[q] = "success" /\ outcome[q] # "success"

\* C23 as stated: each query has its own retry budget and issues at most 4
\* requests, and a query succeeds only on the response to a request of its
\* own.
C23_OutcomeFromOwnResponsesOnly ==
  [][/\ OwnRetryBudget
     /\ \A q \in Queries :
          Succeeds(q) => qpc[q] = "waiting" /\ reqs'[q] = fails'[q] + 1]_vars

\* C23, amended: each query has its own retry budget and issues at most 4
\* requests; a query succeeds on the response to a request of its own, or
\* without a request on the response that is in the shared cache for its url.
C23_OutcomeFromOwnResponsesOrSharedCache ==
  [][/\ OwnRetryBudget
     /\ \A q \in Queries :
          Succeeds(q) =>
            \/ qpc[q] = "waiting" /\ reqs'[q] = fails'[q] + 1
            \/ /\ cache[qurl[q]] # NoEntry
               /\ result'[q] = cache[qurl[q]]
               /\ reqs'[q] = reqs[q]]_vars

C23_Witness ==
  /\ qurl["q1"] = qurl["q2"]
  /\ outcome["q1"] = "success" /\ reqs["q1"] = 1 /\ fails["q1"] = 0
  /\ outcome["q2"] = "success" /\ reqs["q2"] = 1 /\ fails["q2"] = 1
  /\ result["q2"] = result["q1"]

----------------------------------------------------------------------------
\* Claims about the other reducers (checked under SpecRed)

Called(fn) == redFn = fn /\ redPc = "out"

RewardPairs ==
  {<<redIn.dbRewards[i].validator, redIn.dbRewards[i].denom>> :
     i \in 1..Len(redIn.dbRewards)}

RECURSIVE PairTotal(_, _)
PairTotal(pair, rewards) ==
  IF rewards = <<>> THEN 0
  ELSE (IF <<Head(rewards).validator, Head(rewards).denom>> = pair
        THEN Head(rewards).amount ELSE 0) + PairTotal(pair, Tail(rewards))

RecordOfPair(r, pair) ==
  /\ r.denom = pair[2]
  /\ r.validator = IF pair[1] \in DOMAIN redIn.validatorsDictionary
                   THEN [operatorAddress |-> pair[1]]
                   ELSE UndefinedValidator
  /\ r.amount = DecimalString(PairTotal(pair, redIn.dbRewards))
                  \o <<".", "0", "0", "0", "0", "0", "0">>

\* C12: dbRewardsReducer returns one record per distinct (validator, denom)
\* pair of the raw entries, its amount the sum of the amounts of the entries
\* with that pair, and no record for a pair that is not in the input.
C12_OneRewardPerPairWithSummedAmount ==
  Called("dbRewardsReducer") =>
    /\ Len(redOut) = Cardinality(RewardPairs)
    /\ \A pair \in RewardPairs :
         \E i \in 1..Len(redOut) : RecordOfPair(redOut[i], pair)
    /\ \A i \in 1..Len(redOut) :
         \E pair \in RewardPairs : RecordOfPair(redOut[i], pair)
    /\ DOMAIN redIn.validatorsDictionary = Validators =>
         \A i, j \in 1..Len(redOut) :
           i # j => <<redOut[i].validator, redOut[i].denom>>
                      # <<redOut[j].validator, redOut[j].denom>>

C12_Witness ==
  /\ Called("dbRewardsReducer")
  /\ redIn.dbRewards =
       << [validator |-> "V1", denom |-> "uatom", amount |-> 10],
          [validator |-> "V1", denom |-> "uatom", amount |-> 5],
          [validator |-> "V2", denom |-> "uatom", amount |-> 3] >>
  /\ redOut =
       << [validator |-> [operatorAddress |-> "V1"], denom |-> "uatom",
           amount |-> <<"1", "5", ".", "0", "0", "0", "0", "0", "0">>],
          [validator |-> [operatorAddress |-> "V2"], denom |-> "uatom",
           amount |-> <<"3", ".", "0", "0", "0", "0", "0", "0">>] >>

DigitValue(c) == CHOOSE d \in 0..9 : DigitChars[d + 1] = c

IsDigits(s) == \A i \in 1..Len(s) : \E d \in 0..9 : DigitChars[d + 1] = s[i]

RECURSIVE DigitsValue(_)
DigitsValue(s) ==
  IF s = <<>> THEN 0
  ELSE 10 * DigitsValue(SubSeq(s, 1, Len(s) - 1)) + DigitValue(s[Len(s)])

\* s is a decimal fraction with exactly four decimal places that is within
\* half of 0.0001 of num / den
IsFourDecimalsOf(s, num, den) ==
  /\ Len(s) >= 6
  /\ s[Len(s) - 4] = "."
  /\ LET whole == SubSeq(s, 1, Len(s) - 5)
         frac  == SubSeq(s, Len(s) - 3, Len(s))
     IN /\ IsDigits(whole) /\ IsDigits(frac)
        /\ LET n == 10000 * DigitsValue(whole) + DigitsValue(frac)
               d == n * den - num * 10000
           IN 2 * d <= den /\ -2 * d <= den

\* C13: tallyReducer's totalVotedPercentage is turnout / totalIssuance as a
\* fraction with exactly four decimal places, whatever ayes and nays are;
\* abstain and veto are 0 and total is ayes + nays in the view denomination.
C13_TurnoutShareWithFourDecimals ==
  Called("tallyReducer") =>
    /\ IsFourDecimalsOf(redOut.totalVotedPercentage,
                        redIn.tally.turnout, redIn.totalIssuance)
    /\ (redIn.tally.turnout = 300 /\ redIn.totalIssuance = 1000) =>
         redOut.totalVotedPercentage = <<"0", ".", "3", "0", "0", "0">>
    /\ redOut.abstain = 0
    /\ redOut.veto = 0
    /\ redOut.total.mant = redIn.tally.ayes + redIn.tally.nays
    /\ redOut.total.exp = redIn.network.chainToViewConversionExp

C13_Witness ==
  /\ Called("tallyReducer")
  /\ redIn.tally = [ayes |-> 200, nays |-> 100, turnout |-> 300]
  /\ redIn.totalIssuance = 1000
  /\ redOut.totalVotedPercentage = <<"0", ".", "3", "0", "0", "0">>
  /\ redOut.total = [mant |-> 300, exp |-> 6]

\* The voting power of the roster members that are in the vote list.
RECURSIVE VotedPower(_, _)
VotedPower(roster, voters) ==
  IF roster = <<>> THEN 0
  ELSE (IF Head(roster)[1] \in voters THEN Head(roster)[2] ELSE 0)
         + VotedPower(Tail(roster), voters)

\* C14: councilTallyReducer returns yes and no as the numbers of aye and nay
\* votes, total = yes + no, and totalVotedPercentage = the power of the whole
\* roster divided by the power of the roster members that voted aye or nay.
C14_CouncilShareOverVotersInRoster ==
  Called("councilTallyReducer") =>
    LET roster == redIn.electionInfo.members
        voters == Range(redIn.votes.ayes) \cup Range(redIn.votes.nays)
    IN /\ redOut.yes = Len(redIn.votes.ayes)
       /\ redOut.no = Len(redIn.votes.nays)
       /\ redOut.total = redOut.yes + redOut.no
       /\ VotedPower(roster, voters) > 0 =>
            IsFourDecimalsOf(redOut.totalVotedPercentage,
                             SumPowers(roster), VotedPower(roster, voters))

IsSet(f) == f \in DOMAIN redIn.identity /\ Len(redIn.identity[f]) > 0

\* C15: identityReducer returns displayParent/display when both are set and
\* non-empty, else display when it is set and non-empty, else the address; a
\* displayParent without a non-empty display is not in the result.
C15_IdentityFallbackChain ==
  Called("identityReducer") =>
    /\ (IsSet("displayParent") /\ IsSet("display")) =>
         redOut = redIn.identity.displayParent \o <<"/">>
                    \o redIn.identity.display
    /\ (~IsSet("displayParent") /\ IsSet("display")) =>
         redOut = redIn.identity.display
    /\ ~IsSet("display") => redOut = redIn.address

C15_Witness ==
  /\ Called("identityReducer")
  /\ redIn.identity = [displayParent |-> <<"F", "o", "o">>,
                       display |-> <<"B", "a", "r">>]
  /\ redOut = <<"F", "o", "o", "/", "B", "a", "r">>

\* A reported amount in units of 0.000001.
Micro(d) == d.mant * Pow10(6 - d.exp)

ConsistentSnapshot ==
  redIn.balance.n + redIn.staked.n <= redIn.total.n

\* C20: a snapshot with available + staked <= total in chain units is
\* reported, after conversion and rounding up to 6 decimals, with
\* available + staked <= total.
C20_ReportedPartsWithinTotal ==
  (Called("balanceV2Reducer") /\ ConsistentSnapshot) =>
    Micro(redOut.available) + Micro(redOut.staked) <= Micro(redOut.total)

----------------------------------------------------------------------------
\* Claims about the facade operations (checked under SpecFacade)

\* C16: an address-taking operation called with an address that does not
\* start with the network's prefix has failed with UserInputError as soon as
\* it has run at all: no sub-query was dispatched, no request was issued and
\* no retry delay was waited.
C16_BadPrefixFailsBeforeAnyRequest ==
  (fop \in AddressOps /\ fpc # "called"
     /\ ~StartsWith(farg.address, AddressPrefix)) =>
    /\ fpc = "done"
    /\ fOutcome.kind = "thrown"
    /\ fOutcome.error.kind = "UserInputError"
    /\ fReqs = 0
    /\ fDelays = 0
    /\ \A s \in FacadeSubs : fsub[s] = "unsent"

C16_Witness ==
  /\ fop = "getBalancesV2FromAddress"
  /\ farg.address = <<"x", "c", "o", "s", "m", "o", "s", "1">>
  /\ fpc = "done"
  /\ fOutcome.error.kind = "UserInputError"
  /\ fReqs = 0

\* C17: when getProposalById fails with UserInputError, exactly one request
\* was issued and no retry delay was waited.
C17_MissingProposalFailsAfterOneRequest ==
  (fop = "getProposalById" /\ fOutcome.error.kind = "UserInputError") =>
    fReqs = 1 /\ fDelays = 0

\* C18: getSelfStake returns 0 exactly when the self-delegation query failed
\* with status 500 and the "no delegation for this" message; any other
\* failure of the query ends in an error for the caller, and a successful
\* query in the reduced amount.
C18_SelfStakeZeroIffMarker ==
  (fop = "getSelfStake" /\ fpc = "done") =>
    LET e == fErr["staking/delegation"]
        failed == fsub["staking/delegation"] = "failed"
        marked == failed /\ e.status = 500 /\ e.body = "no delegation for this"
    IN /\ (fOutcome.kind = "returned" /\ fOutcome.value = "0") <=> marked
       /\ (failed /\ ~marked) => fOutcome.kind = "thrown"
       /\ ~failed => fOutcome.kind = "returned" /\ fOutcome.value = "reduced"

C18_Witness ==
  /\ fop = "getSelfStake"
  /\ fpc = "done"
  /\ fsub["staking/delegation"] = "failed"
  /\ fErr["staking/delegation"].status = 500
  /\ fErr["staking/delegation"].body = "no delegation for this"
  /\ fOutcome.kind = "returned"
  /\ fOutcome.value = "0"

\* C19: when an upstream sub-query of an operation has failed, other than
\* with the marker in getSelfStake, the operation has failed with an error of
\* the same kind.
C19_NoUpstreamFailureSwallowed ==
  fpc = "done" =>
    \A s \in FacadeSubs :
      (/\ IsUpstream(s)
       /\ fsub[s] \in {"failed", "defaulted"}
       /\ ~(fop = "getSelfStake" /\ fErr[s].status = 500
              /\ fErr[s].body = "no delegation for this")) =>
        fOutcome.kind = "thrown" /\ fOutcome.error.kind = fErr[s].kind

\* C21: getAllValidators dispatches its six independent sub-queries together,
\* before waiting for any; it asks for signing infos, reduces and returns
\* validators only when all six have succeeded; and when one of them has
\* failed it has failed itself and returned nothing.
C21_ValidatorQueriesFanOutFanIn ==
  fop = "getAllValidators" =>
    /\ (\E s \in ValidatorQueries : fsub[s] # "unsent") =>
         \A s \in ValidatorQueries : fsub[s] # "unsent"
    /\ fpc # "called" => \A s \in ValidatorQueries : fsub[s] # "unsent"
    /\ (fstage = 2 \/ fOutcome.kind = "returned") =>
         \A s \in ValidatorQueries : fsub[s] = "ok"
    /\ (\E s \in ValidatorQueries : fsub[s] = "failed") =>
         /\ fpc = "done"
         /\ fOutcome.kind = "thrown"
         /\ fOutcome.value = "none"
         /\ fsub["slashing/signing_info"] = "unsent"

C21_Witness ==
  /\ fop = "getAllValidators"
  /\ fpc = "done"
  /\ fOutcome.kind = "thrown"
  /\ fsub["validatorsets"] = "failed"
  /\ fsub["minting/annual-provisions"] = "ok"
  /\ fsub["slashing/parameters"] = "inflight"

\* C22: getTransactions called with an address of the network, on an upstream
\* where no request fails, ends by returning the reduced transactions.
C22_TransactionsCompleteWhenUpstreamSucceeds ==
  (/\ fop = "getTransactions"
   /\ StartsWith(farg.address, AddressPrefix)
   /\ fpc = "done"
   /\ \A s \in FacadeSubs : fsub[s] \notin {"failed", "defaulted"}) =>
    fOutcome.kind = "returned" /\ fOutcome.value = "reduced"

====
